---- MODULE Spec2Model ----
(***************************************************************************)
(* ScraplingUI (src/app.py): the scrape function, the history log and the  *)
(* handler of the Scrape button, as a state machine over the Streamlit     *)
(* session state.                                                          *)
(*                                                                         *)
(* Text that the code slices, strips or searches (url, selector, element   *)
(* text, html) is a sequence of one-character strings; text that the code  *)
(* only formats or passes on (fetcher type, error messages) is a string.   *)
(* The status glyphs and the message emoji are written in ASCII.           *)
(***************************************************************************)
EXTENDS Integers, Sequences, FiniteSets, TLC

VARIABLES
    results,    \* st.session_state.results
    last_url,   \* st.session_state.last_url (set once, never written again)
    history,    \* st.session_state.history, newest entry first
    shown,      \* the st.error / st.success box of the last press
    site,       \* what the fetch library answers now: errors and matched elements
    clock,      \* datetime.now(), one tick per run; also the number of runs
    log,        \* every history entry ever inserted, oldest first
    last,       \* the last press or call of scrape: arguments, site, return value
    fetches     \* the number of fetch entry points invoked so far

vars == <<results, last_url, history, shown, site, clock, log, last, fetches>>

----------------------------------------------------------------------------
(* Bounds of the model *)

MaxElems == 2
MaxRuns == 2
MaxHistRuns == 22

(* Constants of the program *)

HistoryCap == 20
UrlMax == 50
SelectorMax == 30
HtmlMax == 200
DefaultTimeout == 30

----------------------------------------------------------------------------
(* Python string operations on character sequences *)

Min(a, b) == IF a < b THEN a ELSE b

Chars(c, n) == [i \in 1..n |-> c]

Whitespace == {" ", "\t", "\n"}

RECURSIVE LStrip(_)
LStrip(s) ==
    IF s = <<>> THEN s
    ELSE IF Head(s) \in Whitespace THEN LStrip(Tail(s)) ELSE s

RECURSIVE RStrip(_)
RStrip(s) ==
    IF s = <<>> THEN s
    ELSE IF s[Len(s)] \in Whitespace THEN RStrip(SubSeq(s, 1, Len(s) - 1)) ELSE s

\* str.strip()
Strip(s) == RStrip(LStrip(s))

\* s[:n]
Slice(s, n) == SubSeq(s, 1, Min(n, Len(s)))

\* sub in s
Contains(sub, s) ==
    \E i \in 1..(Len(s) - Len(sub) + 1) : SubSeq(s, i, i + Len(sub) - 1) = sub

TextMark == <<":", ":", "t", "e", "x", "t">>
AttrMark == <<":", ":", "a", "t", "t", "r", "(">>
Ellipsis == <<".", ".", ".">>

\* dict.get(key, default); a dict is a set of <<key, value>> pairs
Get(options, key, default) ==
    IF \E p \in options : p[1] = key
    THEN (CHOOSE p \in options : p[1] = key)[2]
    ELSE default

----------------------------------------------------------------------------
(* The fetch collaborator: what a fetch and a query answer *)

\* An attribute of a matched element: absent, raising on access, None or a str
Absent == [kind |-> "absent", v |-> <<>>, msg |-> ""]
Raising(m) == [kind |-> "raises", v |-> <<>>, msg |-> m]
PyNone == [kind |-> "none", v |-> <<>>, msg |-> ""]
Str(s) == [kind |-> "str", v |-> s, msg |-> ""]

Element(text, html, str) == [text |-> text, html |-> html, str |-> str]

NoError == [raised |-> FALSE, msg |-> ""]
Error(m) == [raised |-> TRUE, msg |-> m]

\* str(exc)
StrExc(exc) == exc.msg

\* html[:200] on None
NotSubscriptable == "'NoneType' object is not subscriptable"

----------------------------------------------------------------------------
(* scrape: the three record shapes *)

Shaped(recs) == [raised |-> FALSE, msg |-> "", recs |-> recs]
Raised(m) == [raised |-> TRUE, msg |-> m, recs |-> <<>>]

\* as ShapeText, emitting the text as found instead of text.strip()
ShapeTextUnstripped(el) ==
    IF el.text.kind = "raises" THEN Raised(el.text.msg)
    ELSE LET text == IF el.text.kind = "absent" THEN Str(el.str) ELSE el.text
         IN  IF text.kind = "str" /\ text.v # <<>> /\ Strip(text.v) # <<>>
             THEN Shaped(<<[text |-> text.v]>>)
             ELSE Shaped(<<>>)

\* "::text" in selector
ShapeText(el) ==
    IF el.text.kind = "raises" THEN Raised(el.text.msg)
    ELSE LET text == IF el.text.kind = "absent" THEN Str(el.str) ELSE el.text
         IN  IF text.kind = "str" /\ text.v # <<>> /\ Strip(text.v) # <<>>
             THEN Shaped(<<[text |-> Strip(text.v)]>>)
             ELSE Shaped(<<>>)

\* as ShapeAttr, dropping empty values as the text branch does
ShapeAttrSkipEmpty(el) ==
    IF el.str = <<>> THEN Shaped(<<>>) ELSE Shaped(<<[value |-> el.str]>>)

\* "::attr(" in selector
ShapeAttr(el) == Shaped(<<[value |-> el.str]>>)

\* as ShapePlain, with html in place of html[:200]
ShapePlainWholeHtml(el) ==
    IF el.text.kind = "raises" THEN Raised(el.text.msg)
    ELSE IF el.html.kind = "raises" THEN Raised(el.html.msg)
    ELSE LET text == IF el.text.kind = "absent" THEN Str(<<>>) ELSE el.text
             html == IF el.html.kind = "absent" THEN Str(el.str) ELSE el.html
             stripped == IF text.kind = "str" /\ text.v # <<>>
                         THEN Strip(text.v) ELSE <<>>
         IN  IF html.kind = "none" THEN Raised(NotSubscriptable)
             ELSE Shaped(<<[text |-> stripped, html |-> html.v]>>)

\* neither
ShapePlain(el) ==
    IF el.text.kind = "raises" THEN Raised(el.text.msg)
    ELSE IF el.html.kind = "raises" THEN Raised(el.html.msg)
    ELSE LET text == IF el.text.kind = "absent" THEN Str(<<>>) ELSE el.text
             html == IF el.html.kind = "absent" THEN Str(el.str) ELSE el.html
             stripped == IF text.kind = "str" /\ text.v # <<>>
                         THEN Strip(text.v) ELSE <<>>
         IN  IF html.kind = "none" THEN Raised(NotSubscriptable)
             ELSE Shaped(<<[text |-> stripped, html |-> Slice(html.v, HtmlMax)]>>)

ShapeOne(el, selector) ==
    IF Contains(TextMark, selector) THEN ShapeText(el)
    ELSE IF Contains(AttrMark, selector) THEN ShapeAttr(el)
    ELSE ShapePlain(el)

\* the loop over elements; data is the list built so far
RECURSIVE ShapeAll(_, _, _)
ShapeAll(elements, selector, data) ==
    IF elements = <<>> THEN [raised |-> FALSE, msg |-> "", data |-> data]
    ELSE LET r == ShapeOne(Head(elements), selector)
         IN  IF r.raised THEN [raised |-> TRUE, msg |-> r.msg, data |-> data]
             ELSE ShapeAll(Tail(elements), selector, data \o r.recs)

----------------------------------------------------------------------------
(* scrape: dispatch, query, result *)

FetcherTypes == {"Fetcher", "StealthyFetcher", "DynamicFetcher"}

\* as Dispatch, with the plain fetch as the else branch
DispatchDefaulting(fetcher_type, url, options) ==
    IF fetcher_type = "StealthyFetcher"
    THEN <<[entry |-> "StealthyFetcher.fetch", url |-> url,
            args |-> {<<"headless", Get(options, "headless", TRUE)>>,
                      <<"solve_cloudflare", Get(options, "solve_cloudflare", FALSE)>>,
                      <<"network_idle", TRUE>>}]>>
    ELSE IF fetcher_type = "DynamicFetcher"
    THEN <<[entry |-> "DynamicFetcher.fetch", url |-> url,
            args |-> {<<"headless", Get(options, "headless", TRUE)>>,
                      <<"network_idle", Get(options, "network_idle", TRUE)>>}]>>
    ELSE <<[entry |-> "Fetcher.get", url |-> url,
            args |-> {<<"stealthy_headers", TRUE>>,
                      <<"timeout", Get(options, "timeout", DefaultTimeout)>>}]>>

\* the fetch entry point a strategy calls, with its arguments
Dispatch(fetcher_type, url, options) ==
    IF fetcher_type = "Fetcher"
    THEN <<[entry |-> "Fetcher.get", url |-> url,
            args |-> {<<"stealthy_headers", TRUE>>,
                      <<"timeout", Get(options, "timeout", DefaultTimeout)>>}]>>
    ELSE IF fetcher_type = "StealthyFetcher"
    THEN <<[entry |-> "StealthyFetcher.fetch", url |-> url,
            args |-> {<<"headless", Get(options, "headless", TRUE)>>,
                      <<"solve_cloudflare", Get(options, "solve_cloudflare", FALSE)>>,
                      <<"network_idle", TRUE>>}]>>
    ELSE IF fetcher_type = "DynamicFetcher"
    THEN <<[entry |-> "DynamicFetcher.fetch", url |-> url,
            args |-> {<<"headless", Get(options, "headless", TRUE)>>,
                      <<"network_idle", Get(options, "network_idle", TRUE)>>}]>>
    ELSE <<>>

\* page.css(selector) / page.xpath(selector)
Query(selector_type, selector) ==
    [method |-> IF selector_type = "CSS" THEN "css" ELSE "xpath", selector |-> selector]

\* what scrape returns (success, data, error), with what it called and matched
Ret(success, data, error, fetched, queried, matched) ==
    [success |-> success, data |-> data, error |-> error,
     fetched |-> fetched, queried |-> queried, matched |-> matched]

\* as ExceptHandler, returning the records built before the error
ExceptHandlerKeeping(exc, data, fetched, queried, matched) ==
    Ret(FALSE, data, StrExc(exc), fetched, queried, matched)

\* as ExceptHandler, with a fixed message in place of str(exc)
ExceptHandlerGeneric(exc, data, fetched, queried, matched) ==
    Ret(FALSE, <<>>, "Scrape failed", fetched, queried, matched)

\* except Exception as exc: return False, [], str(exc)
ExceptHandler(exc, data, fetched, queried, matched) ==
    Ret(FALSE, <<>>, StrExc(exc), fetched, queried, matched)

scrape(url, fetcher_type, selector, selector_type, options, world) ==
    LET fetched == Dispatch(fetcher_type, url, options)
        q == Query(selector_type, selector)
        qerr == world.query[q.method]
        out == ShapeAll(world.elements, selector, <<>>)
    IN  IF fetched = <<>>
        THEN Ret(FALSE, <<>>, "Unknown fetcher type: " \o fetcher_type, <<>>, <<>>, <<>>)
        ELSE IF world.fetch.raised
        THEN ExceptHandler(world.fetch, <<>>, fetched, <<>>, <<>>)
        ELSE IF qerr.raised
        THEN ExceptHandler(qerr, <<>>, fetched, <<q>>, <<>>)
        ELSE IF out.raised
        THEN ExceptHandler(out, out.data, fetched, <<q>>, world.elements)
        ELSE Ret(TRUE, out.data, "", fetched, <<q>>, world.elements)

----------------------------------------------------------------------------
(* Session state, history and the Scrape button *)

\* st.session_state.results: None, or the list a successful run stored
NoResults == [none |-> TRUE, rows |-> <<>>]
Stored(data) == [none |-> FALSE, rows |-> data]

\* url[:50] + "..." if len(url) > 50 else url
Truncate(s, n) == IF Len(s) > n THEN Slice(s, n) \o Ellipsis ELSE s

HistoryEntry(url, fetcher, selector, count, status, time) ==
    [url |-> Truncate(url, UrlMax), fetcher |-> fetcher,
     selector |-> Truncate(selector, SelectorMax),
     count |-> count, status |-> status, time |-> time]

\* as add_to_history, appending at the end before the cut
add_to_history_appending(h, entry) == Slice(h \o <<entry>>, HistoryCap)

\* history.insert(0, entry); history = history[:20]
add_to_history(h, entry) == Slice(<<entry>> \o h, HistoryCap)

\* as Validate, without the selector check
ValidateUrlOnly(url, selector) ==
    IF url = <<>> THEN "Please enter a URL" ELSE ""

\* the checks before scrape is called: the st.error text, or "" to go on
Validate(url, selector) ==
    IF url = <<>> THEN "Please enter a URL"
    ELSE IF selector = <<>> THEN "Please enter a selector"
    ELSE ""

Box(kind, text) == [kind |-> kind, text |-> text]

\* as Handle, storing the (empty) data of a failed run too
HandleStoringAlways(ret, old) ==
    IF ret.success
    THEN [results |-> Stored(ret.data),
          shown |-> Box("success", "Found " \o ToString(Len(ret.data)) \o " items!"),
          count |-> Len(ret.data), status |-> "ok"]
    ELSE [results |-> Stored(ret.data),
          shown |-> Box("error", "Error: " \o ret.error),
          count |-> 0, status |-> "failed"]

\* as Handle, extending the stored list instead of replacing it
HandleExtending(ret, old) ==
    IF ret.success
    THEN [results |-> Stored(old.rows \o ret.data),
          shown |-> Box("success", "Found " \o ToString(Len(ret.data)) \o " items!"),
          count |-> Len(ret.data), status |-> "ok"]
    ELSE [results |-> old,
          shown |-> Box("error", "Error: " \o ret.error),
          count |-> 0, status |-> "failed"]

\* after scrape returned: the state stored, the message and the history fields
Handle(ret, old) ==
    IF ret.success
    THEN [results |-> Stored(ret.data),
          shown |-> Box("success", "Found " \o ToString(Len(ret.data)) \o " items!"),
          count |-> Len(ret.data), status |-> "ok"]
    ELSE [results |-> old,
          shown |-> Box("error", "Error: " \o ret.error),
          count |-> 0, status |-> "failed"]

NoRet == Ret(FALSE, <<>>, "", <<>>, <<>>, <<>>)

\* the last press or call: its arguments, the site it met, what scrape returned
Last(click, ran, url, fetcher_type, selector, selector_type, options, world, ret) ==
    [click |-> click, ran |-> ran, url |-> url, fetcher_type |-> fetcher_type,
     selector |-> selector, selector_type |-> selector_type,
     options |-> options, world |-> world, ret |-> ret]

\* one press of the Scrape button; limit bounds the number of runs
ScrapeButton(url, fetcher_type, selector, selector_type, options, limit) ==
    LET complaint == Validate(url, selector)
        ret == scrape(url, fetcher_type, selector, selector_type, options, site)
        h == Handle(ret, results)
        entry == HistoryEntry(url, fetcher_type, selector, h.count, h.status, clock + 1)
    IN  IF complaint # ""
        THEN /\ shown' = Box("error", complaint)
             /\ last' = Last(TRUE, FALSE, url, fetcher_type, selector, selector_type,
                             options, site, NoRet)
             /\ UNCHANGED <<results, last_url, history, site, clock, log, fetches>>
        ELSE /\ Len(log) < limit
             /\ results' = h.results
             /\ shown' = h.shown
             /\ history' = add_to_history(history, entry)
             /\ log' = Append(log, entry)
             /\ clock' = clock + 1
             /\ fetches' = fetches + Len(ret.fetched)
             /\ last' = Last(TRUE, TRUE, url, fetcher_type, selector, selector_type,
                             options, site, ret)
             /\ UNCHANGED <<last_url, site>>

----------------------------------------------------------------------------
(* Inputs and sites the model draws from *)

\* selectors of QUICK_MAP and others the text field accepts
SelParagraphs == <<"p">> \o TextMark
SelLinks == <<"a">> \o AttrMark \o <<"h", "r", "e", "f", ")">>
SelMixed == <<"a">> \o TextMark \o <<",", "b">> \o AttrMark \o <<"c", ")">>
SelPlain == <<"d", "i", "v">>
SelNearMiss == <<"p", ":", "t", "e", "x", "t">>
SelLong == Chars("x", SelectorMax + 1)

ShortUrl == <<"u">>
LongUrl == Chars("u", UrlMax + 1)

Messages == {"timeout", ""}

\* matched elements: nodes with text and html, bare strings, faulty nodes
ElClean == Element(Str(<<"a">>), Str(<<"<", "p", ">">>), <<"<", "p", ">">>)
ElPadded == Element(Str(<<" ", "a", " ", "b", "\n">>), Str(Chars("h", HtmlMax + 1)), <<"h">>)
ElBlank == Element(Str(<<" ", "\t">>), Str(Chars("h", HtmlMax)), <<"h">>)
ElEmpty == Element(Str(<<>>), Str(<<>>), <<>>)
ElNoneText == Element(PyNone, Str(<<"h">>), <<"h">>)
ElString == Element(Absent, Absent, <<" ", "b">>)
ElLongString == Element(Absent, Absent, Chars("s", HtmlMax + 1))
ElEmptyString == Element(Absent, Absent, <<>>)
ElNoneHtml == Element(Str(<<"c">>), PyNone, <<"c">>)
ElTextRaises == Element(Raising("text failed"), Str(<<"h">>), <<"h">>)

ElementPool == {ElClean, ElPadded, ElBlank, ElEmpty, ElNoneText, ElString,
                ElLongString, ElEmptyString, ElNoneHtml, ElTextRaises}

SeqsUpTo(S, n) == UNION {[1..k -> S] : k \in 0..n}

BothOk == [css |-> NoError, xpath |-> NoError]

Site(fetch, query, elements) == [fetch |-> fetch, query |-> query, elements |-> elements]

FailingSites ==
    {Site(Error(m), BothOk, <<>>) : m \in Messages}
    \cup {Site(NoError, [css |-> Error("bad selector"), xpath |-> NoError], <<ElClean>>),
          Site(NoError, [css |-> NoError, xpath |-> Error("bad xpath")], <<ElClean>>)}

\* every site scrape is checked against
Sites == FailingSites \cup {Site(NoError, BothOk, e) : e \in SeqsUpTo(ElementPool, MaxElems)}

\* the sites a session visits
SessionSites ==
    {Site(Error("timeout"), BothOk, <<>>),
     Site(NoError, BothOk, <<>>),
     Site(NoError, BothOk, <<ElClean, ElPadded>>),
     Site(NoError, BothOk, <<ElBlank, ElClean>>),
     Site(NoError, BothOk, <<ElPadded, ElNoneHtml>>)}

\* the option widgets of each fetcher type
Options(fetcher_type) ==
    IF fetcher_type = "Fetcher" THEN {{<<"timeout", DefaultTimeout>>}}
    ELSE IF fetcher_type = "StealthyFetcher"
    THEN {{<<"headless", TRUE>>, <<"solve_cloudflare", TRUE>>}}
    ELSE IF fetcher_type = "DynamicFetcher"
    THEN {{<<"headless", FALSE>>, <<"network_idle", TRUE>>}}
    ELSE {{}}

----------------------------------------------------------------------------
(* The session *)

Init ==
    /\ results = NoResults
    /\ last_url = <<>>
    /\ history = <<>>
    /\ shown = Box("none", "")
    /\ site \in SessionSites
    /\ clock = 0
    /\ log = <<>>
    /\ fetches = 0
    /\ last = Last(FALSE, FALSE, <<>>, "Fetcher", <<>>, "CSS", {}, site, NoRet)

\* the user presses Scrape with the form filled in some way
Forms ==
    {<<ShortUrl, "Fetcher", SelParagraphs, "CSS">>,
     <<LongUrl, "StealthyFetcher", SelLinks, "CSS">>,
     <<ShortUrl, "DynamicFetcher", SelLong, "XPath">>,
     <<<<>>, "Fetcher", SelParagraphs, "CSS">>,
     <<ShortUrl, "StealthyFetcher", <<>>, "XPath">>}

Click ==
    \E form \in Forms :
    \E options \in Options(form[2]) :
        ScrapeButton(form[1], form[2], form[3], form[4], options, MaxRuns)

\* the site answers differently from now on
SiteChanges ==
    /\ \E w \in SessionSites \ {site} : site' = w
    /\ UNCHANGED <<results, last_url, history, shown, clock, log, last, fetches>>

Next == Click \/ SiteChanges

Spec == Init /\ [][Next]_vars

\* a long session on one site: enough runs to overflow the history
ClickMany ==
    \E url \in {<<>>, ShortUrl} :
        ScrapeButton(url, "Fetcher", SelParagraphs, "CSS",
                     {<<"timeout", DefaultTimeout>>}, MaxHistRuns)

\* once the history is full the site may start to answer differently
SiteChangesLate ==
    /\ Len(log) = HistoryCap
    /\ \E w \in SessionSites \ {site} : site' = w
    /\ UNCHANGED <<results, last_url, history, shown, clock, log, last, fetches>>

NextHist == ClickMany \/ SiteChangesLate

SpecHist == Init /\ [][NextHist]_vars

\* scrape alone, called with any arguments on any site
InitScrape ==
    /\ results = NoResults
    /\ last_url = <<>>
    /\ history = <<>>
    /\ shown = Box("none", "")
    /\ site \in Sites
    /\ clock = 0
    /\ log = <<>>
    /\ fetches = 0
    /\ last = Last(FALSE, FALSE, <<>>, "Fetcher", <<>>, "CSS", {}, site, NoRet)

CallScrape ==
    \E fetcher_type \in FetcherTypes \cup {"Other"} :
    \E selector \in {SelParagraphs, SelLinks, SelMixed, SelPlain, SelNearMiss} :
    \E selector_type \in {"CSS", "XPath"} :
    \E options \in Options(fetcher_type) \cup {{}} :
        /\ ~last.ran
        /\ last' = Last(FALSE, TRUE, ShortUrl, fetcher_type, selector, selector_type,
                        options, site, scrape(ShortUrl, fetcher_type, selector,
                                        selector_type, options, site))
        /\ UNCHANGED <<results, last_url, history, shown, site, clock, log, fetches>>

NextScrape == CallScrape

SpecScrape == InitScrape /\ [][NextScrape]_vars

----------------------------------------------------------------------------
(* Properties *)

NonBlank(s) == \E i \in 1..Len(s) : s[i] \notin Whitespace

Trimmed(s) == s = <<>> \/ (s[1] \notin Whitespace /\ s[Len(s)] \notin Whitespace)

IsText(selector) == Contains(TextMark, selector)
IsAttr(selector) == ~Contains(TextMark, selector) /\ Contains(AttrMark, selector)
IsPlain(selector) == ~Contains(TextMark, selector) /\ ~Contains(AttrMark, selector)

\* the text a "::text" selector reads from an element: el.text, or str(el) without it
TextOf(el) ==
    IF el.text.kind = "absent" THEN el.str
    ELSE IF el.text.kind = "str" THEN el.text.v ELSE <<>>

\* the error a run meets first, if any: fetch, then query, then the elements in order
FirstError(world, selector_type, selector) ==
    LET method == IF selector_type = "CSS" THEN "css" ELSE "xpath"
        bad == {i \in 1..Len(world.elements) : ShapeOne(world.elements[i], selector).raised}
        first == CHOOSE i \in bad : \A j \in bad : i <= j
    IN  IF world.fetch.raised THEN world.fetch
        ELSE IF world.query[method].raised THEN world.query[method]
        ELSE IF bad # {} THEN Error(ShapeOne(world.elements[first], selector).msg)
        ELSE NoError

\* the records of all the elements, in order
RECURSIVE AllRecords(_, _)
AllRecords(elements, selector) ==
    IF elements = <<>> THEN <<>>
    ELSE ShapeOne(Head(elements), selector).recs \o AllRecords(Tail(elements), selector)

\* C1: the history never holds more than 20 entries; it is the most recent
\* min(runs, 20) runs, most recent first, so the 21st insertion evicts the oldest
C1_HistoryCapped ==
    /\ Len(history) <= HistoryCap
    /\ Len(history) = Min(Len(log), HistoryCap)
    /\ \A i \in 1..Len(history) : history[i] = log[Len(log) - i + 1]

C1_Witness ==
    /\ Len(log) = HistoryCap + 1
    /\ log[1].status = "ok" /\ log[HistoryCap + 1].status = "failed"
    /\ Len(history) = HistoryCap
    /\ history[HistoryCap] = log[2]
    /\ history[1] = log[HistoryCap + 1]

\* C2 as claimed: after a run whose fetch or extraction raised, the result state
\* holds no records, the message shown is the error's, and the newest history
\* entry is a failed one with count 0
C2_AsClaimed ==
    (last.click /\ last.ran /\ ~last.ret.success) =>
        /\ results.rows = <<>>
        /\ shown = Box("error", "Error: " \o
                        FirstError(last.world, last.selector_type, last.selector).msg)
        /\ history # <<>> /\ history[1].count = 0 /\ history[1].status = "failed"

\* C2 as amended: a run whose fetch or extraction raised leaves the result state
\* as it was (empty only if nothing was stored before), shows the error's message
\* and adds a failed entry with count 0 to the history
C2_FailureKeepsResults ==
    [][(clock' # clock /\ ~last'.ret.success) =>
          /\ results' = results
          /\ shown' = Box("error", "Error: " \o
                           FirstError(site, last'.selector_type, last'.selector).msg)
          /\ Len(history') = Min(Len(history) + 1, HistoryCap)
          /\ history'[1].count = 0 /\ history'[1].status = "failed"]_vars

C2_Witness ==
    /\ last.click /\ last.ran /\ ~last.ret.success
    /\ results.rows # <<>>
    /\ history[1].status = "failed"
    /\ shown.text = "Error: " \o NotSubscriptable

\* C3: after a successful run the result set is exactly that run's record list;
\* nothing of an earlier run is kept in it
C3_ResultsReplaced ==
    (last.click /\ last.ran /\ last.ret.success) =>
        /\ ~results.none
        /\ results.rows = AllRecords(last.world.elements, last.selector)
        /\ results.rows = last.ret.data

C3_Witness ==
    /\ last.click /\ last.ran /\ last.ret.success
    /\ Len(log) >= 2
    /\ log[Len(log) - 1].status = "ok"
    /\ log[Len(log) - 1].count > 0
    /\ log[Len(log) - 1].selector # log[Len(log)].selector
    /\ results.rows # <<>>

\* C4: under a selector containing "::text" (with or without "::attr(") every
\* record has the one key text, trimmed and not empty or whitespace-only, and
\* the elements whose text is empty or whitespace-only give no record
C4_TextRecords ==
    (last.ran /\ IsText(last.selector)) =>
        LET data == last.ret.data
            matched == last.ret.matched
            kept == SelectSeq(matched, LAMBDA el : NonBlank(TextOf(el)))
        IN  /\ \A i \in 1..Len(data) :
                   /\ DOMAIN data[i] = {"text"}
                   /\ data[i].text # <<>>
                   /\ NonBlank(data[i].text)
                   /\ Trimmed(data[i].text)
            /\ last.ret.success => Len(data) = Len(kept)

C4_Witness ==
    /\ last.ran /\ last.selector = SelMixed /\ last.ret.success
    /\ last.ret.matched = <<ElBlank, ElPadded>>
    /\ last.ret.data = <<[text |-> <<"a", " ", "b">>]>>

\* C5: under a selector containing "::attr(" and not "::text" there is exactly
\* one record per matched element, in match order, with the one key value
\* holding the stringified element
C5_AttrRecords ==
    (last.ran /\ IsAttr(last.selector)) =>
        LET data == last.ret.data
            matched == last.ret.matched
        IN  /\ Len(data) = Len(matched)
            /\ \A i \in 1..Len(data) :
                   /\ DOMAIN data[i] = {"value"}
                   /\ data[i].value = matched[i].str

C5_Witness ==
    /\ last.ran /\ last.selector = SelLinks /\ last.ret.success
    /\ last.ret.matched = <<ElEmptyString, ElTextRaises>>
    /\ Len(last.ret.data) = 2

\* C6: under a selector with neither mark every record has the two keys text
\* and html; text is the element's trimmed text or empty, html the first 200
\* characters of its serialized html
C6_PlainRecords ==
    (last.ran /\ IsPlain(last.selector)) =>
        LET data == last.ret.data
            matched == last.ret.matched
            serialized(el) == IF el.html.kind = "absent" THEN el.str ELSE el.html.v
            text(el) == IF el.text.kind = "str" THEN Strip(el.text.v) ELSE <<>>
        IN  /\ \A i \in 1..Len(data) :
                   /\ DOMAIN data[i] = {"text", "html"}
                   /\ Len(data[i].html) <= HtmlMax
                   /\ Trimmed(data[i].text)
            /\ last.ret.success =>
                   /\ Len(data) = Len(matched)
                   /\ \A i \in 1..Len(data) :
                          /\ data[i].text = text(matched[i])
                          /\ data[i].html = SubSeq(serialized(matched[i]), 1,
                                                   Min(HtmlMax, Len(serialized(matched[i]))))

C6_Witness ==
    /\ last.ran /\ last.selector = SelNearMiss /\ last.ret.success
    /\ last.ret.matched = <<ElLongString, ElPadded>>
    /\ Len(last.ret.data[1].html) = HtmlMax
    /\ Len(last.ret.data[2].html) = HtmlMax
    /\ last.ret.data[1].text = <<>>

\* C7 as claimed: a run yields one record for each matched element, or none
C7_AsClaimed ==
    (last.click /\ last.ran) =>
        \/ Len(last.ret.data) = Len(last.ret.matched)
        \/ last.ret.data = <<>>

\* C7 as amended: a run yields the records of all the matched elements, in match
\* order (an element with blank text gives none under a "::text" selector), or,
\* when anything raised, no record at all; the session stores nothing else
C7_AllOrNothing ==
    [][clock' # clock =>
          LET ret == last'.ret
              whole == /\ \A i \in 1..Len(site.elements) :
                              ~ShapeOne(site.elements[i], last'.selector).raised
                       /\ ret.data = AllRecords(site.elements, last'.selector)
          IN  /\ IF ret.success THEN whole ELSE ret.data = <<>>
              /\ results' = results \/ (whole /\ results' = Stored(ret.data))]_vars

C7_Witness ==
    /\ last.click /\ last.ran /\ ~last.ret.success
    /\ last.ret.matched = <<ElPadded, ElNoneHtml>>
    /\ ShapeOne(ElPadded, last.selector).recs # <<>>
    /\ last.ret.data = <<>>

\* C8: whenever the fetch, the query or the shaping of an element raises, scrape
\* returns success = false, no data and the error's message; it returns
\* success = true only with an empty error string
C8_ErrorsReturned ==
    last.ran =>
        LET err == FirstError(last.world, last.selector_type, last.selector)
            ret == last.ret
        IN  /\ ret.success => ret.error = ""
            /\ (last.fetcher_type \in FetcherTypes /\ err.raised) =>
                   (~ret.success /\ ret.data = <<>> /\ ret.error = err.msg)
            /\ (last.fetcher_type \in FetcherTypes /\ ~err.raised) => ret.success

C8_Witness ==
    /\ last.ran /\ ~last.ret.success
    /\ last.ret.matched = <<ElClean, ElTextRaises>>
    /\ last.ret.error = "text failed"
    /\ last.ret.data = <<>>

\* C9: a call of scrape invokes at most one fetch entry point, the one its
\* strategy names; for any other strategy it invokes none and returns
\* failure, no data and the Unknown fetcher type error
C9_OneEntryPoint ==
    last.ran =>
        LET ret == last.ret
            named == [Fetcher |-> "Fetcher.get",
                      StealthyFetcher |-> "StealthyFetcher.fetch",
                      DynamicFetcher |-> "DynamicFetcher.fetch"]
        IN  /\ Len(ret.fetched) <= 1
            /\ last.fetcher_type \in FetcherTypes =>
                   /\ Len(ret.fetched) = 1
                   /\ ret.fetched[1].entry = named[last.fetcher_type]
            /\ last.fetcher_type \notin FetcherTypes =>
                   /\ ret.fetched = <<>>
                   /\ ~ret.success
                   /\ ret.data = <<>>
                   /\ ret.error = "Unknown fetcher type: " \o last.fetcher_type

C9_Witness ==
    /\ last.ran /\ last.fetcher_type = "Other"
    /\ ~last.world.fetch.raised /\ last.world.elements # <<>>
    /\ last.ret.error = "Unknown fetcher type: Other"

\* C10: a press with an empty URL or an empty selector calls nothing and changes
\* neither the result set nor the history; every run that calls scrape adds one
\* entry, whose count is the length of the stored list on success and 0 on failure
C10_BlankPressChangesNothing ==
    [][/\ (last'.click /\ (last'.url = <<>> \/ last'.selector = <<>>)) =>
              /\ ~last'.ran
              /\ results' = results
              /\ history' = history
              /\ fetches' = fetches
              /\ clock' = clock
       /\ clock' # clock =>
              /\ last'.ran
              /\ Len(history') = Min(Len(history) + 1, HistoryCap)
              /\ SubSeq(history', 2, Len(history')) = SubSeq(history, 1, Len(history') - 1)
              /\ history'[1].count =
                     IF last'.ret.success THEN Len(results'.rows) ELSE 0
       /\ Len(history') = Min(clock', HistoryCap)]_vars

C10_Witness ==
    /\ last.click /\ ~last.ran
    /\ last.url # <<>> /\ last.selector = <<>>
    /\ shown = Box("error", "Please enter a selector")
    /\ Len(history) > 0 /\ results.rows # <<>>

====
